---- MODULE Spec2Model ----
(***************************************************************************)
(* A model of the client transport and wire-codec core of volo:            *)
(*   - volo-grpc  ClientTransport::call  (src/volo-grpc/src/transport/     *)
(*     client.rs), one gRPC call as a state machine split at its awaits;   *)
(*   - volo-thrift FramedDecoder / FramedEncoder (src/volo-thrift/src/     *)
(*     codec/default/framed.rs), the length-prefixed transport adapter.    *)
(* Each component has its own specification (SpecGrpc, SpecFramed); the    *)
(* variables of the other component stay at their initial value.           *)
(***************************************************************************)
EXTENDS Integers, Sequences, FiniteSets, TLC

(***************************************************************************)
(* Rust's Option<T>: None is the empty sequence, Some(x) the sequence <<x>>. *)
(***************************************************************************)
None == <<>>
Some(x) == <<x>>
IsSome(o) == Len(o) = 1
Unwrap(o) == o[1]

(***************************************************************************)
(* Bounds of the model.                                                    *)
(***************************************************************************)
\* longest send_compressions / accept_compressions list that is enumerated
MaxCompressions == 2
\* largest reading of the wall clock
MaxTime == 3
\* longest inner payload that is enumerated
MaxPayload == 3
\* largest number of with_tls / with_tls_connector steps on one builder
MaxBuilderSteps == 2
\* largest number of requests one connector hands to its dialers
MaxDials == 2
\* longest method path given to build_uri
MaxPath == 3
\* longest Unix socket path given to build_uri
MaxSock == 2
\* largest number of calls made on one HTTP client
MaxCalls == 3
\* largest small frame length and small max_frame_size that is enumerated
MaxFrame == 3

(***************************************************************************)
(*                       gRPC client transport                             *)
(***************************************************************************)
VARIABLES
    compress,            \* cargo feature "compress" of the build
    callee_address,      \* cx.rpc_info.callee().address(): Option<Address>
    method,              \* cx.rpc_info.method()
    send_compressions,   \* cx.rpc_info.config().send_compressions: Option<Vec<_>>
    accept_compressions, \* cx.rpc_info.config().accept_compressions
    metadata,            \* volo_req's metadata (a header multimap)
    transport_start_at,  \* cx.stats: Option<DateTime<Local>>
    transport_end_at,    \* cx.stats: Option<DateTime<Local>>
    now,                 \* the wall clock Local::now() reads
    clock_set_back,      \* history: the wall clock was set back after transport_start_at was recorded
    pc,                  \* where ClientTransport::call stands
    req,                 \* the http::Request built by call: Option
    body_compression,    \* the compression message.into_body was given: Option<Option<_>>
    dispatched,          \* the requests handed to http_client.call, in order
    resp_headers,        \* headers of the response received: Option
    from_body,           \* the arguments U::from_body was invoked with: Option
    result               \* what call returned: Option<Result<Response, Status>>

grpcVars == <<compress, callee_address, method, send_compressions,
              accept_compressions, metadata, transport_start_at,
              transport_end_at, now, clock_set_back, pc, req,
              body_compression, dispatched, resp_headers, from_body, result>>

\* the variables of the Thrift framed codec
VARIABLES
    max_frame_size,  \* FramedDecoder.max_frame_size = FramedEncoder.max_frame_size
    cx_role,         \* cx.rpc_info().role()
    has_framed,      \* cx.extensions() contains HasFramed
    read_size,       \* cx.stats: the size set_read_size stored, Option<usize>
    read_end_at,     \* cx.stats: record_read_end_at has stamped the time
    inner_size,      \* FramedEncoder.inner_size
    last,            \* history: the last operation, its input and what it did
    sized,           \* history: the last size call of the encoder, Option
    request          \* history: how many messages this context saw, and the last

framedVars == <<max_frame_size, cx_role, has_framed, read_size, read_end_at,
                inner_size, last, sized, request>>

\* the HTTP connector: ConnectorBuilder and HttpMakeConnection
VARIABLES
    tls_feature,      \* the crate is built with the feature __tls
    disable_tls,      \* config.disable_tls
    builder,          \* "new", "built" (consumed by build) or "panicked"
    mk_conn,          \* the builder's HttpMakeConnection
    tls_invoked,      \* history: the caller invoked with_tls or
                      \* with_tls_connector on the builder
    steps,            \* number of builder steps taken
    connector,        \* what build() returned, once it has
    dials,            \* calls made to the underlying dialers
    conn_last         \* the last request given to call and its result

connVars ==
    <<tls_feature, disable_tls, builder, mk_conn, tls_invoked, steps,
      connector, dials, conn_last>>

\* build_uri on its own
VARIABLES
    uri_addr,         \* the Address given to build_uri
    uri_path,         \* the method path given to build_uri
    uri_out           \* what build_uri made of them, once it ran

uriVars == <<uri_addr, uri_path, uri_out>>

\* the HTTP client and the timeout of its calls (durations in milliseconds)
VARIABLES
    request_timeout,  \* the default set by set_request_timeout
    call_opt,         \* the timeout of the CallOpt of the last call, if any
    cx_config,        \* the Config of the context of the last call
    http_resp,        \* what the innermost service answered, once called
    http_calls        \* number of calls made on the client

httpVars == <<request_timeout, call_opt, cx_config, http_resp, http_calls>>

vars == <<grpcVars, framedVars, connVars, uriVars, httpVars>>

\* CompressionEncoding variants, by their header token
Algs == {"gzip", "zstd"}

RECURSIVE SeqsUpTo(_, _)
SeqsUpTo(S, n) ==
    IF n = 0 THEN {<<>>}
    ELSE LET shorter == SeqsUpTo(S, n - 1)
         IN  shorter \cup {Append(s, x) : s \in shorter, x \in S}

\* Option<Vec<CompressionEncoding>>: absent, present but empty, or a list
CompressionConfigs ==
    {None} \cup {Some(l) : l \in SeqsUpTo(Algs, MaxCompressions)}

HeaderNames ==
    {"te", "content-type", "grpc-encoding", "grpc-accept-encoding", "x-foo"}

\* http::HeaderMap: every name maps to the sequence of its values
EmptyHeaders == [n \in HeaderNames |-> <<>>]

\* HeaderMap::insert replaces every value stored under the name
HeaderInsertAppending(h, name, value) ==
    [h EXCEPT ![name] = Append(@, value)]

HeaderInsert(h, name, value) == [h EXCEPT ![name] = <<value>>]

\* caller-supplied metadata, some of it colliding with the headers call sets
MetadataChoices ==
    { EmptyHeaders,
      [EmptyHeaders EXCEPT !["x-foo"] = <<"bar">>],
      [EmptyHeaders EXCEPT !["te"] = <<"gzip">>,
                           !["content-type"] = <<"text/plain">>],
      [EmptyHeaders EXCEPT !["te"] = <<"trailers", "deflate">>,
                           !["grpc-encoding"] = <<"zstd">>] }

\* Text is a sequence of one-character strings.

\* the decimal digits of a natural number (Display of u8 and u16)
DigitChar(d) ==
    CASE d = 0 -> "0" [] d = 1 -> "1" [] d = 2 -> "2" [] d = 3 -> "3"
      [] d = 4 -> "4" [] d = 5 -> "5" [] d = 6 -> "6" [] d = 7 -> "7"
      [] d = 8 -> "8" [] d = 9 -> "9"

RECURSIVE Decimal(_)
Decimal(n) ==
    IF n < 10 THEN <<DigitChar(n)>>
    ELSE Decimal(n \div 10) \o <<DigitChar(n % 10)>>

\* Display of an Ipv4Addr: the four octets in decimal, joined by dots
Ipv4Text(o) ==
    Decimal(o[1]) \o <<".">> \o Decimal(o[2]) \o <<".">> \o Decimal(o[3])
        \o <<".">> \o Decimal(o[4])

\* ip.to_string() of a SocketAddr: `ip:port`, an IPv6 address in brackets
\* (host is then the text Display gives the Ipv6Addr)
SocketAddrText(a) ==
    IF a.family = "v4" THEN Ipv4Text(a.host) \o <<":">> \o Decimal(a.port)
    ELSE <<"[">> \o a.host \o <<"]", ":">> \o Decimal(a.port)

\* one hexadecimal digit, lower case (hex::encode)
HexChar(d) ==
    CASE d < 10 -> DigitChar(d)
      [] d = 10 -> "a" [] d = 11 -> "b" [] d = 12 -> "c"
      [] d = 13 -> "d" [] d = 14 -> "e" [] d = 15 -> "f"

\* hex::encode of a byte string
RECURSIVE HexEncode(_)
HexEncode(b) ==
    IF b = <<>> THEN <<>>
    ELSE <<HexChar(b[1] \div 16), HexChar(b[1] % 16)>> \o HexEncode(Tail(b))

\* Path::to_string_lossy, then as_bytes: well-formed UTF-8 is kept (here
\* ASCII, and a two-byte sequence of a lead byte 0xC2..0xDF and a
\* continuation byte 0x80..0xBF); every other byte becomes U+FFFD, which is
\* EF BF BD
RECURSIVE ToStringLossy(_)
ToStringLossy(b) ==
    IF b = <<>> THEN <<>>
    ELSE IF b[1] < 128 THEN <<b[1]>> \o ToStringLossy(Tail(b))
    ELSE IF /\ b[1] \in 194..223
            /\ Len(b) >= 2
            /\ b[2] \in 128..191
    THEN <<b[1], b[2]>> \o ToStringLossy(Tail(Tail(b)))
    ELSE <<239, 191, 189>> \o ToStringLossy(Tail(b))

\* http::uri::PathAndQuery of the text p: a character that may not stand
\* in a URI (here the space) is an error, unless it stands behind a `#`;
\* a fragment (`#` and what follows) is dropped; the empty path reads `/`
RECURSIVE UpToFragment(_)
UpToFragment(p) ==
    IF p = <<>> \/ p[1] = "#" THEN <<>>
    ELSE <<p[1]>> \o UpToFragment(Tail(p))

PathAndQuery(p) ==
    LET kept == UpToFragment(p)
    IN  IF \E i \in 1..Len(kept) : kept[i] = " "
        THEN [ok |-> FALSE, text |-> <<>>]
        ELSE [ok |-> TRUE, text |-> IF kept = <<>> THEN <<"/">> ELSE kept]

\* volo::net::Address: an IP socket address, or a Unix socket address that
\* is bound to a pathname or unnamed
IpAddress(family, host, port) ==
    [kind |-> "ip", family |-> family, host |-> host, port |-> port,
     pathname |-> None]
UnixAddress(pathname) ==
    [kind |-> "unix", family |-> "", host |-> <<>>, port |-> 0,
     pathname |-> pathname]

AddressChoices ==
    { None,
      Some(IpAddress("v4", <<127, 0, 0, 1>>, 8000)),
      Some(UnixAddress(Some(<<47, 116>>))),
      Some(UnixAddress(None)) }

\* method paths; the last is no valid path-and-query
MethodChoices == {<<"/", "a", "?", "a">>, <<"/", " ", "a">>}

\* the URI that was not built
NoUri(panic) ==
    [panic |-> panic, scheme |-> "", authority |-> <<>>,
     path_and_query |-> <<>>]

\* build_uri: the Uri, or the panic of one of the expect() calls
BuildUriHttpsScheme(addr, path) ==
    [panic |-> "", scheme |-> "https", authority |-> <<>>,
     path_and_query |-> path]

BuildUri(addr, path) ==
    LET pq == PathAndQuery(path)
    IN  IF addr.kind = "ip"
        THEN IF pq.ok
             THEN [panic |-> "", scheme |-> "http",
                   authority |-> SocketAddrText(addr),
                   path_and_query |-> pq.text]
             ELSE NoUri("fail to build ip uri")
        ELSE IF addr.pathname = None
             THEN NoUri("target address is an invalid unix socket")
             ELSE IF pq.ok
                  THEN [panic |-> "", scheme |-> "http+unix",
                        authority |->
                            HexEncode(ToStringLossy(Unwrap(addr.pathname))),
                        path_and_query |-> pq.text]
                  ELSE NoUri("fail to build unix uri")

\* a Status, or the Ok of a Result<_, Status>
Status(code, message) == [ok |-> FALSE, code |-> code, message |-> message]
OkResult == [ok |-> TRUE, code |-> "Ok", message |-> ""]

\* impl From<std::io::Error> for Status, applied by `?`
StatusFromIoError(kind, message) ==
    Status(IF kind = "InvalidData" THEN "InvalidArgument" ELSE "Unknown",
           message)

\* Status::from_error
StatusFromError(cause) == Status("Unknown", cause)

\* Code::from of a grpc-status value
CodeOf(n) == IF n = 0 THEN "Ok" ELSE IF n = 5 THEN "NotFound" ELSE "Unknown"

\* Status::from_header_map: None without a grpc-status header
StatusFromHeaderMap(h) ==
    IF h.grpc_status = None THEN None
    ELSE Some([ok |-> Unwrap(h.grpc_status) = 0,
               code |-> CodeOf(Unwrap(h.grpc_status)),
               message |-> h.grpc_message])

InList(x, l) == \E i \in 1..Len(l) : l[i] = x

\* CompressionEncoding::from_encoding_header: the negotiated encoding, or
\* a Status when the peer's grpc-encoding is not among the accepted ones
FromEncodingHeader(h, accept) ==
    IF h.grpc_encoding = None
    THEN [err |-> None, encoding |-> None]
    ELSE IF IsSome(accept) /\ InList(Unwrap(h.grpc_encoding), Unwrap(accept))
         THEN [err |-> None, encoding |-> h.grpc_encoding]
         ELSE [err |-> Some(Status("Internal", "unsupported grpc-encoding")),
               encoding |-> None]

RECURSIVE JoinTokens(_)
JoinTokens(l) ==
    IF Len(l) = 0 THEN ""
    ELSE IF Len(l) = 1 THEN l[1]
    ELSE l[1] \o "," \o JoinTokens(Tail(l))

\* CompressionEncoding::into_accept_encoding_header_value
AcceptEncodingHeaderValue(l) == Some(JoinTokens(l))

\* the response headers a server may answer with
ResponseHeaderChoices ==
    { [grpc_status |-> st,
       grpc_message |-> IF st = Some(5) THEN "not found" ELSE "",
       grpc_encoding |-> enc] :
        st \in {None, Some(0), Some(5)},
        enc \in {None} \cup {Some(a) : a \in Algs \cup {"br"}} }

\* the io::Error call makes when the context has no callee address
MissingAddressNotInvalidData ==
    [kind |-> "Other", message |-> "address is required"]

MissingAddress == [kind |-> "InvalidData", message |-> "address is required"]

\* rpc_config.send_compressions.as_ref().map(|config| config[0]):
\* indexing an empty Vec panics
SendCompressionOf(cfg) ==
    IF cfg = None THEN [panic |-> FALSE, value |-> None]
    ELSE IF Len(Unwrap(cfg)) = 0 THEN [panic |-> TRUE, value |-> None]
    ELSE [panic |-> FALSE, value |-> Some(Unwrap(cfg)[1])]

\* `if let Some(send_compression) = send_compression { insert(ENCODING_HEADER) }`
EncodingHeaderKeepingCaller(h, send) ==
    IF IsSome(send) /\ h["grpc-encoding"] = <<>>
    THEN HeaderInsert(h, "grpc-encoding", Unwrap(send))
    ELSE h

EncodingHeader(h, send) ==
    IF IsSome(send)
    THEN HeaderInsert(h, "grpc-encoding", Unwrap(send))
    ELSE h

\* the header map of the request: the metadata, then the inserts of call
RequestHeaders(meta, send, accept) ==
    LET h1 == HeaderInsert(meta, "te", "trailers")
        h2 == HeaderInsert(h1, "content-type", "application/grpc")
        h3 == EncodingHeader(h2, send)
    IN  IF IsSome(accept) /\ Len(Unwrap(accept)) > 0
           /\ IsSome(AcceptEncodingHeaderValue(Unwrap(accept)))
        THEN HeaderInsert(h3, "grpc-accept-encoding",
                          Unwrap(AcceptEncodingHeaderValue(Unwrap(accept))))
        ELSE h3

\* call up to its first await: what it leaves in pc, req, body_compression,
\* transport_start_at and result
StartOutcome ==
    IF callee_address = None
    THEN [pc |-> "done", req |-> None, body |-> None, start |-> None,
          result |-> Some(StatusFromIoError(MissingAddress.kind,
                                            MissingAddress.message))]
    ELSE LET sc == SendCompressionOf(send_compressions)
             uri == BuildUri(Unwrap(callee_address), method)
         IN  IF sc.panic
             THEN [pc |-> "panicked", req |-> None, body |-> None,
                   start |-> None, result |-> None]
             ELSE IF uri.panic # ""
             THEN [pc |-> "panicked", req |-> None, body |-> Some(sc.value),
                   start |-> None, result |-> None]
             ELSE [pc |-> "ready",
                   req |-> Some([version |-> "HTTP/2", method |-> "POST",
                                 uri |-> uri,
                                 headers |-> RequestHeaders(metadata, sc.value,
                                                            accept_compressions)]),
                   body |-> Some(sc.value), start |-> Some(now),
                   result |-> None]

CallStart ==
    /\ pc = "start"
    /\ pc' = StartOutcome.pc
    /\ req' = StartOutcome.req
    /\ body_compression' = StartOutcome.body
    /\ transport_start_at' = StartOutcome.start
    /\ result' = StartOutcome.result
    /\ UNCHANGED <<compress, callee_address, method, send_compressions,
                   accept_compressions, metadata, transport_end_at, now,
                   clock_set_back, dispatched, resp_headers, from_body>>
    /\ UNCHANGED <<framedVars, connVars, uriVars, httpVars>>

\* http_client.ready().await: an error becomes the Status call returns
Ready ==
    /\ pc = "ready"
    /\ \E ok \in BOOLEAN :
          /\ pc' = IF ok THEN "call" ELSE "done"
          /\ result' = IF ok THEN result
                       ELSE Some(StatusFromError("service not ready"))
    /\ UNCHANGED <<compress, callee_address, method, send_compressions,
                   accept_compressions, metadata, transport_start_at,
                   transport_end_at, now, clock_set_back, req,
                   body_compression, dispatched, resp_headers, from_body>>
    /\ UNCHANGED <<framedVars, connVars, uriVars, httpVars>>

\* where call stands after a failed dispatch
AfterFailedDispatchRetrying == "call"

AfterFailedDispatch == "done"

\* .call(req): the request is handed to the HTTP/2 client
Dispatch ==
    /\ pc = "call"
    /\ dispatched' = Append(dispatched, Unwrap(req))
    /\ pc' = "await"
    /\ UNCHANGED <<compress, callee_address, method, send_compressions,
                   accept_compressions, metadata, transport_start_at,
                   transport_end_at, now, clock_set_back, req,
                   body_compression, resp_headers, from_body, result>>
    /\ UNCHANGED <<framedVars, connVars, uriVars, httpVars>>

\* transport_end_at when the dispatch fails: the ? operator returns before
\* record_make_transport_end_at is reached
EndAtRecordedOnError(t) == Some(t)

EndAtOnError(t) == transport_end_at

\* .await.map_err(..)?: the dispatch fails, and call returns the Status
DispatchFails ==
    /\ pc = "await"
    /\ pc' = AfterFailedDispatch
    /\ result' = Some(StatusFromError("transport error"))
    /\ transport_end_at' = EndAtOnError(now)
    /\ UNCHANGED <<compress, callee_address, method, send_compressions,
                   accept_compressions, metadata, transport_start_at,
                   now, clock_set_back, req,
                   body_compression, dispatched, resp_headers, from_body>>
    /\ UNCHANGED <<framedVars, connVars, uriVars, httpVars>>

\* cx.stats.record_make_transport_end_at(), reached once the dispatch has
\* returned a response
EndAtAfterDispatch(t) == Some(t)

\* the receive compression handed to from_body, or the Status of a failed
\* negotiation; without the feature "compress" it is None
AcceptCompression(h) ==
    IF compress THEN FromEncodingHeader(h, accept_compressions)
    ELSE [err |-> None, encoding |-> None]

\* call after the response arrived: the header status check, the
\* negotiation of the receive compression and U::from_body
ResponseOutcomeIgnoringHeaderStatus(h, decoded) ==
    LET neg == AcceptCompression(h)
    IN  IF IsSome(neg.err)
        THEN [from_body |-> None, result |-> neg.err]
        ELSE [from_body |-> Some([path |-> method, kind |-> "Response",
                                  status_code |-> 200,
                                  compression |-> neg.encoding]),
              result |-> Some(IF decoded THEN OkResult
                              ELSE Status("Internal", "decode failed"))]

ResponseOutcome(h, decoded) ==
    LET st == StatusFromHeaderMap(h)
        neg == AcceptCompression(h)
    IN  IF IsSome(st) /\ Unwrap(st).code # "Ok"
        THEN [from_body |-> None, result |-> st]
        ELSE IF IsSome(neg.err)
        THEN [from_body |-> None, result |-> neg.err]
        ELSE [from_body |-> Some([path |-> method, kind |-> "Response",
                                  status_code |-> 200,
                                  compression |-> neg.encoding]),
              result |-> Some(IF decoded THEN OkResult
                              ELSE Status("Internal", "decode failed"))]

\* the response arrives and call runs to its return
Respond ==
    /\ pc = "await"
    /\ \E h \in ResponseHeaderChoices, decoded \in BOOLEAN :
          /\ resp_headers' = Some(h)
          /\ from_body' = ResponseOutcome(h, decoded).from_body
          /\ result' = ResponseOutcome(h, decoded).result
    /\ transport_end_at' = EndAtAfterDispatch(now)
    /\ pc' = "done"
    /\ UNCHANGED <<compress, callee_address, method, send_compressions,
                   accept_compressions, metadata, transport_start_at, now,
                   clock_set_back, req, body_compression, dispatched>>
    /\ UNCHANGED <<framedVars, connVars, uriVars, httpVars>>

\* the wall clock advances, before the call and while it is in progress
Tick ==
    /\ pc \in {"start", "ready", "call", "await"}
    /\ now < MaxTime
    /\ now' = now + 1
    /\ UNCHANGED <<compress, callee_address, method, send_compressions,
                   accept_compressions, metadata, transport_start_at,
                   transport_end_at, clock_set_back, pc, req,
                   body_compression, dispatched, resp_headers, from_body,
                   result>>
    /\ UNCHANGED <<framedVars, connVars, uriVars, httpVars>>

\* the wall clock is set back (DateTime<Local> is not monotonic)
ClockSetBack ==
    /\ pc \in {"ready", "call", "await"}
    /\ \E t \in 0..(now - 1) : now' = t
    /\ clock_set_back' = TRUE
    /\ UNCHANGED <<compress, callee_address, method, send_compressions,
                   accept_compressions, metadata, transport_start_at,
                   transport_end_at, pc, req, body_compression, dispatched,
                   resp_headers, from_body, result>>
    /\ UNCHANGED <<framedVars, connVars, uriVars, httpVars>>


(***************************************************************************)
(*                        Thrift framed codec                              *)
(***************************************************************************)
DEFAULT_MAX_FRAME_SIZE == 16 * 1024 * 1024
HEADER_DETECT_LENGTH == 6
FRAMED_HEADER_SIZE == 4

\* a small max_frame_size set by with_max_frame_size
SmallMaxFrameSize == 2

TwoTo24 == 16777216
TwoTo31Minus1 == 2147483647

\* the bytes payloads are made of: 0x01, 0x80, 0x82
PayloadBytes == {1, 128, 130}

\* inner encodings of messages: the two leading bytes range over
\* PayloadBytes, the bytes after them are 0x01
Payloads ==
    {p \in SeqsUpTo(PayloadBytes, MaxPayload) :
        \A i \in 3..Len(p) : p[i] = 1}

\* the length written least significant byte first
LE32(n) ==
    << n % 256, (n \div 256) % 256, (n \div 65536) % 256,
       (n \div TwoTo24) % 256 >>

\* i32::to_be_bytes (BufMut::put_i32, WriteExt::write_i32)
BE32(n) ==
    << (n \div TwoTo24) % 256, (n \div 65536) % 256, (n \div 256) % 256,
       n % 256 >>

\* i32::from_be_bytes of the four leading bytes (Buf::get_i32)
GetI32(b) ==
    (IF b[1] >= 128 THEN b[1] - 256 ELSE b[1]) * TwoTo24
        + b[2] * 65536 + b[3] * 256 + b[4]

\* a usize q * 2^31 + r, 0 <= r < 2^31, with q counted modulo 2^33
\* (q = -1 stands for 2^33 - 1)
Usize(q, r) == [q |-> q, r |-> r]

\* `size as usize` of an i32: a negative size is sign-extended
I32AsUsize(size) ==
    IF size >= 0 THEN Usize(0, size)
    ELSE Usize(-1, (size + TwoTo31Minus1) + 1)

\* `n as i32` of a usize: the low 32 bits, as a signed number
UsizeAsI32(u) ==
    IF u.q % 2 = 0 THEN u.r ELSE (u.r - TwoTo31Minus1) - 1

\* u + k of usize, k < 2^31: the sum, and whether it overflowed 64 bits
UsizeAdd(u, k) ==
    LET carry == u.r > TwoTo31Minus1 - k
        r == IF carry THEN (u.r - TwoTo31Minus1) - 1 + k ELSE u.r + k
        q == IF carry THEN u.q + 1 ELSE u.q
    IN  [overflow |-> carry /\ u.q = -1, value |-> Usize(q, r)]

\* is_framed(buf), buf holding at least HEADER_DETECT_LENGTH bytes
IsFramedIgnoringSecondByte(buf) == buf[5] = 128 \/ buf[5] = 130

IsFramed(buf) == (buf[5] = 128 /\ buf[6] = 1) \/ buf[5] = 130

\* a check that forgets negative sizes
CheckFramedSizeUnsigned(size, max) ==
    IF size > max THEN "SizeLimit" ELSE "ok"

\* a check that also refuses a frame of exactly max bytes
CheckFramedSizeExclusive(size, max) ==
    IF size >= max THEN "SizeLimit"
    ELSE IF size < 0 THEN "NegativeSize"
    ELSE "ok"

\* check_framed_size: "ok", or the kind of the ProtocolException
CheckFramedSize(size, max) ==
    IF size > max THEN "SizeLimit"
    ELSE IF size < 0 THEN "NegativeSize"
    ELSE "ok"

\* the inner encoder: a message is identified with its encoding, whose
\* length is the real size and the allocated size
InnerEncode(msg) == msg
InnerSize(msg) == [real |-> Usize(0, Len(msg)), malloc |-> Usize(0, Len(msg))]

Drop(b, n) == SubSeq(b, n + 1, Len(b))
Take(b, n) == SubSeq(b, 1, n)

\* what one operation leaves in `last`
NoOp ==
    [op |-> "none", kind |-> "", wire |-> <<>>, had_framed |-> FALSE,
     outcome |-> "", consumed |-> 0, inner |-> "none", inner_in |-> <<>>,
     msg |-> <<>>, ret |-> None, out |-> <<>>, echo_of |-> None,
     size |-> 0, real |-> Usize(0, 0)]

\* the decoder takes `wire` for a framed message: at least
\* HEADER_DETECT_LENGTH bytes, with the magic of a protocol behind the prefix
LooksFramed(wire) ==
    Len(wire) >= HEADER_DETECT_LENGTH
        /\ IsFramed(Take(wire, HEADER_DETECT_LENGTH))

\* no message was decoded on the context yet
NoRequest == [n |-> 0, ok |-> FALSE, framed |-> FALSE]

\* one more message on the context (n counts to "two or more")
NextRequest(wire, outcome) ==
    [n |-> IF request.n < 2 THEN request.n + 1 ELSE 2,
     ok |-> outcome = "ok", framed |-> LooksFramed(wire)]

\* the cx.extensions_mut().insert(HasFramed) of the decoders
MarkFramedAlways(classified) == TRUE

MarkFramed(classified) == classified

\* the buffer after bytes.get_i32(): the four bytes read are gone from it
AfterGetI32KeepingPrefix(wire) == wire

AfterGetI32(wire) == Drop(wire, 4)

\* FramedDecoder::decode on the buffer `wire`
DecodeOutcome(wire) ==
    IF Len(wire) < HEADER_DETECT_LENGTH
    THEN [outcome |-> "ok", consumed |-> 0, framed |-> MarkFramed(FALSE),
          inner |-> "decode", inner_in |-> wire]
    ELSE IF IsFramed(Take(wire, HEADER_DETECT_LENGTH))
    THEN LET check == CheckFramedSize(GetI32(wire), max_frame_size)
         IN  IF check # "ok"
             THEN [outcome |-> check, consumed |-> 4, framed |-> FALSE,
                   inner |-> "none", inner_in |-> <<>>]
             ELSE [outcome |-> "ok", consumed |-> 4,
                   framed |-> MarkFramed(TRUE),
                   inner |-> "decode", inner_in |-> AfterGetI32(wire)]
    ELSE [outcome |-> "ok", consumed |-> 0, framed |-> MarkFramed(FALSE),
          inner |-> "decode", inner_in |-> wire]

\* reader.read_exact(&mut buffer[..size]) on a reader that still holds `rest`
\* (at least `size` bytes): the bytes put in the buffer
ReadExactWholeRest(rest, size) == rest

ReadExact(rest, size) == Take(rest, size)

\* FramedDecoder::decode_async on a reader that yields `wire` and then ends;
\* `checks` tells whether the build panics on arithmetic overflow
DecodeAsyncOutcome(wire, checks) ==
    IF Len(wire) < HEADER_DETECT_LENGTH
    THEN [outcome |-> "ok", consumed |-> 0, framed |-> MarkFramed(FALSE),
          inner |-> "decode_async", inner_in |-> wire,
          read_size |-> read_size, read_end_at |-> read_end_at]
    ELSE IF IsFramed(Take(wire, HEADER_DETECT_LENGTH))
    THEN LET size == GetI32(wire)
             sum == UsizeAdd(I32AsUsize(size), 4)
             check == CheckFramedSize(size, max_frame_size)
         IN  IF sum.overflow /\ checks
             THEN [outcome |-> "panic", consumed |-> 0, framed |-> FALSE,
                   inner |-> "none", inner_in |-> <<>>,
                   read_size |-> read_size, read_end_at |-> read_end_at]
             ELSE IF check # "ok"
             THEN [outcome |-> check, consumed |-> 4, framed |-> FALSE,
                   inner |-> "none", inner_in |-> <<>>,
                   read_size |-> Some(sum.value),
                   read_end_at |-> read_end_at]
             ELSE IF Len(wire) - 4 < size
             THEN [outcome |-> "UnexpectedEof", consumed |-> Len(wire),
                   framed |-> FALSE, inner |-> "none", inner_in |-> <<>>,
                   read_size |-> Some(sum.value),
                   read_end_at |-> read_end_at]
             ELSE [outcome |-> "ok", consumed |-> 4 + size,
                   framed |-> MarkFramed(TRUE), inner |-> "decode",
                   inner_in |-> ReadExact(Drop(wire, 4), size),
                   read_size |-> Some(sum.value), read_end_at |-> TRUE]
    ELSE [outcome |-> "ok", consumed |-> 0, framed |-> MarkFramed(FALSE),
          inner |-> "decode_async", inner_in |-> wire,
          read_size |-> read_size, read_end_at |-> read_end_at]

\* the condition of FramedEncoder::size and FramedEncoder::encode: a frame
\* header is emitted
EmitsHeaderClientOnly == cx_role = "Client"

EmitsHeader == cx_role = "Client" \/ has_framed

\* FramedEncoder::size, the inner encoder reporting the sizes `inner`
SizeOutcomeOf(inner) ==
    LET cached == UsizeAsI32(inner.real)
        check == CheckFramedSize(cached, max_frame_size)
    IN  IF EmitsHeader
        THEN IF check # "ok"
             THEN [outcome |-> check, inner_size |-> cached, ret |-> None]
             ELSE [outcome |-> "ok", inner_size |-> cached,
                   ret |-> Some([real |-> UsizeAdd(inner.real, FRAMED_HEADER_SIZE).value,
                                 malloc |-> UsizeAdd(inner.malloc, FRAMED_HEADER_SIZE).value])]
        ELSE [outcome |-> "ok", inner_size |-> cached, ret |-> Some(inner)]

\* FramedEncoder::size of the message msg
SizeOutcome(msg) == SizeOutcomeOf(InnerSize(msg))

\* FramedEncoder::encode: the bytes written to the output buffer
EncodeOutputPrefixingTotal(msg) ==
    IF EmitsHeader
    THEN BE32(inner_size + FRAMED_HEADER_SIZE) \o InnerEncode(msg)
    ELSE InnerEncode(msg)

EncodeOutput(msg) ==
    IF EmitsHeader THEN BE32(inner_size) \o InnerEncode(msg)
    ELSE InnerEncode(msg)

\* the payloads is_framed recognises behind a length prefix
Detectable(p) == Len(p) >= 2 /\ ((p[1] = 128 /\ p[2] = 1) \/ p[1] = 130)

\* messages from the peer: framed with their length, unframed (short, or
\* behind the four leading bytes of a binary message), or a recognisable
\* payload behind a length that is not its own
RawHeads == {<<>>, <<128, 1, 0, 1>>}
ForgedSizes ==
    (0..(MaxPayload + 1))
        \cup {-1, -5, DEFAULT_MAX_FRAME_SIZE, DEFAULT_MAX_FRAME_SIZE + 1}

PeerInputs ==
    {[kind |-> "framed", wire |-> BE32(Len(p)) \o p] : p \in Payloads}
    \cup {[kind |-> "unframed", wire |-> h \o p] :
             h \in RawHeads, p \in Payloads}
    \cup {[kind |-> "forged", wire |-> BE32(f[1]) \o f[2]] :
             f \in {g \in ForgedSizes \X {q \in Payloads : Detectable(q)} :
                       Len(g[2]) # g[1]}}

\* the bytes the encoder has just emitted for the message it sized, given
\* back to the decoder
EchoInputs ==
    IF last.op = "encode" /\ IsSome(sized) /\ Unwrap(sized).msg = last.msg
       /\ Unwrap(sized).outcome = "ok"
    THEN {[kind |-> "echo", wire |-> last.out, echo_of |-> Some(last.msg)]}
    ELSE {}

\* a context is created for the next request
NewContext ==
    /\ last.op = "none"
    /\ \E r \in {"Client", "Server"} : cx_role' = r
    /\ has_framed' = FALSE
    /\ read_size' = None
    /\ read_end_at' = FALSE
    /\ request' = NoRequest
    /\ sized' = None
    /\ last' = NoOp
    /\ UNCHANGED <<max_frame_size, inner_size>>
    /\ UNCHANGED <<grpcVars, connVars, uriVars, httpVars>>

Decode ==
    /\ last.op \in {"none", "encode"}
    /\ \E in \in {[kind |-> i.kind, wire |-> i.wire, echo_of |-> None] :
                     i \in PeerInputs} \cup EchoInputs :
          LET o == DecodeOutcome(in.wire)
          IN  /\ last.op = "encode" => in.kind = "echo"
              /\ request' = NextRequest(in.wire, o.outcome)
              /\ has_framed' = (has_framed \/ o.framed)
              /\ last' = [NoOp EXCEPT !.op = "decode", !.kind = in.kind,
                                      !.wire = in.wire,
                                      !.had_framed = has_framed,
                                      !.outcome = o.outcome,
                                      !.consumed = o.consumed,
                                      !.inner = o.inner,
                                      !.inner_in = o.inner_in,
                                      !.echo_of = in.echo_of]
    /\ sized' = None
    /\ UNCHANGED <<max_frame_size, cx_role, read_size, read_end_at,
                   inner_size>>
    /\ UNCHANGED <<grpcVars, connVars, uriVars, httpVars>>

DecodeAsync ==
    /\ last.op = "none"
    /\ \E in \in PeerInputs, checks \in BOOLEAN :
          LET o == DecodeAsyncOutcome(in.wire, checks)
          IN  /\ request' = NextRequest(in.wire, o.outcome)
              /\ has_framed' = (has_framed \/ o.framed)
              /\ read_size' = o.read_size
              /\ read_end_at' = o.read_end_at
              /\ last' = [NoOp EXCEPT !.op = "decode_async",
                                      !.kind = in.kind, !.wire = in.wire,
                                      !.had_framed = has_framed,
                                      !.outcome = o.outcome,
                                      !.consumed = o.consumed,
                                      !.inner = o.inner,
                                      !.inner_in = o.inner_in]
    /\ sized' = None
    /\ UNCHANGED <<max_frame_size, cx_role, inner_size>>
    /\ UNCHANGED <<grpcVars, connVars, uriVars, httpVars>>

Size ==
    /\ last.op = "none"
    /\ \E msg \in Payloads :
          LET o == SizeOutcome(msg)
          IN  /\ inner_size' = o.inner_size
              /\ sized' = Some([msg |-> msg, outcome |-> o.outcome,
                                ret |-> o.ret, framing |-> EmitsHeader])
              /\ last' = [NoOp EXCEPT !.op = "size", !.msg = msg,
                                      !.outcome = o.outcome, !.ret = o.ret]
    /\ UNCHANGED <<max_frame_size, cx_role, has_framed, read_size,
                   read_end_at, request>>
    /\ UNCHANGED <<grpcVars, connVars, uriVars, httpVars>>

Encode ==
    /\ last.op = "none"
    /\ \E msg \in Payloads :
          last' = [NoOp EXCEPT !.op = "encode", !.msg = msg,
                               !.outcome = "ok", !.out = EncodeOutput(msg)]
    /\ UNCHANGED <<max_frame_size, cx_role, has_framed, read_size,
                   read_end_at, inner_size, sized, request>>
    /\ UNCHANGED <<grpcVars, connVars, uriVars, httpVars>>

\* the context and the request of a call about to start
\* Config::new / Default: no timeout
ConfigNew == [timeout |-> None]

\* no HTTP client in use, for the other specifications
HttpIdle ==
    /\ request_timeout = 0
    /\ call_opt = None
    /\ cx_config = ConfigNew
    /\ http_resp = None
    /\ http_calls = 0

\* build_uri at rest, for the other specifications
UriIdle ==
    /\ uri_addr = UnixAddress(None)
    /\ uri_path = <<>>
    /\ uri_out = None

\* no connector under construction, for the other specifications
ConnIdle ==
    /\ tls_feature = FALSE
    /\ disable_tls = FALSE
    /\ builder = "new"
    /\ mk_conn = [variant |-> "Plain", tls_connector |-> None]
    /\ tls_invoked = FALSE
    /\ steps = 0
    /\ connector = None
    /\ dials = <<>>
    /\ conn_last = None

GrpcStart ==
    /\ compress \in BOOLEAN
    /\ callee_address \in AddressChoices
    /\ method \in MethodChoices
    /\ send_compressions \in CompressionConfigs
    /\ accept_compressions \in CompressionConfigs
    /\ metadata \in MetadataChoices
    /\ transport_start_at = None
    /\ transport_end_at = None
    /\ now = 0
    /\ clock_set_back = FALSE
    /\ pc = "start"
    /\ req = None
    /\ body_compression = None
    /\ dispatched = <<>>
    /\ resp_headers = None
    /\ from_body = None
    /\ result = None

NextGrpc ==
    \/ CallStart
    \/ Ready
    \/ Dispatch
    \/ DispatchFails
    \/ Respond
    \/ Tick
    \/ ClockSetBack

\* the codec at rest, for the specification of the gRPC call
FramedIdle ==
    /\ max_frame_size = DEFAULT_MAX_FRAME_SIZE
    /\ cx_role = "Client"
    /\ has_framed = FALSE
    /\ read_size = None
    /\ read_end_at = FALSE
    /\ inner_size = 0
    /\ last = NoOp
    /\ sized = None
    /\ request = NoRequest

InitGrpc == GrpcStart /\ FramedIdle /\ ConnIdle /\ UriIdle /\ HttpIdle

\* one call of ClientTransport
SpecGrpc == InitGrpc /\ [][NextGrpc]_vars


\* history only: the record of the last operation is dropped before the
\* next operation starts
Forget ==
    /\ last.op # "none"
    /\ last' = NoOp
    /\ UNCHANGED <<max_frame_size, cx_role, has_framed, read_size,
                   read_end_at, inner_size, sized, request>>
    /\ UNCHANGED <<grpcVars, connVars, uriVars, httpVars>>

\* a codec made by make_codec and a fresh context
FramedStart ==
    /\ max_frame_size \in {SmallMaxFrameSize, DEFAULT_MAX_FRAME_SIZE}
    /\ cx_role \in {"Client", "Server"}
    /\ has_framed = FALSE
    /\ read_size = None
    /\ read_end_at = FALSE
    /\ inner_size = 0
    /\ last = NoOp
    /\ sized = None
    /\ request = NoRequest

\* the gRPC call at rest, for the specifications of the codec
GrpcIdle ==
    /\ compress = FALSE
    /\ callee_address = None
    /\ method = <<"/", "a">>
    /\ send_compressions = None
    /\ accept_compressions = None
    /\ metadata = EmptyHeaders
    /\ transport_start_at = None
    /\ transport_end_at = None
    /\ now = 0
    /\ clock_set_back = FALSE
    /\ pc = "start"
    /\ req = None
    /\ body_compression = None
    /\ dispatched = <<>>
    /\ resp_headers = None
    /\ from_body = None
    /\ result = None

InitFramed == FramedStart /\ GrpcIdle /\ ConnIdle /\ UriIdle /\ HttpIdle

\* the decoder alone, on a sequence of messages and contexts
NextDecoder == NewContext \/ Decode \/ DecodeAsync \/ Forget

SpecDecoder == InitFramed /\ [][NextDecoder]_vars

\* the decoder and the encoder of one endpoint
NextCodec == NewContext \/ Decode \/ Size \/ Encode \/ Forget

SpecCodec == InitFramed /\ [][NextCodec]_vars

(***************************************************************************)
(*                       check_framed_size alone                           *)
(***************************************************************************)
\* i32::MIN
I32Min == -TwoTo31Minus1 - 1

\* the i32 values check_framed_size is applied to: small ones around zero,
\* the default limit and its neighbours, and the ends of the type
FrameLengths ==
    ((-MaxFrame - 1)..(MaxFrame + 1))
        \cup {DEFAULT_MAX_FRAME_SIZE - 1, DEFAULT_MAX_FRAME_SIZE,
              DEFAULT_MAX_FRAME_SIZE + 1, TwoTo31Minus1, I32Min}

\* the values with_max_frame_size can set: any i32
MaxFrameSizes ==
    ((-MaxFrame)..MaxFrame)
        \cup {DEFAULT_MAX_FRAME_SIZE, TwoTo31Minus1, I32Min}

\* MakeFramedCodec::with_max_frame_size
WithMaxFrameSize ==
    /\ last.op = "none"
    /\ \E m \in MaxFrameSizes : max_frame_size' = m
    /\ UNCHANGED <<cx_role, has_framed, read_size, read_end_at, inner_size,
                   last, sized, request>>
    /\ UNCHANGED <<grpcVars, connVars, uriVars, httpVars>>

\* check_framed_size(size, self.max_frame_size)
CheckSize ==
    /\ last.op = "none"
    /\ \E size \in FrameLengths :
          last' = [NoOp EXCEPT !.op = "check", !.size = size,
                               !.outcome = CheckFramedSize(size, max_frame_size)]
    /\ UNCHANGED <<max_frame_size, cx_role, has_framed, read_size,
                   read_end_at, inner_size, sized, request>>
    /\ UNCHANGED <<grpcVars, connVars, uriVars, httpVars>>

\* MakeFramedCodec::new
CheckStart ==
    /\ max_frame_size = DEFAULT_MAX_FRAME_SIZE
    /\ cx_role = "Client"
    /\ has_framed = FALSE
    /\ read_size = None
    /\ read_end_at = FALSE
    /\ inner_size = 0
    /\ last = NoOp
    /\ sized = None
    /\ request = NoRequest

InitCheck == CheckStart /\ GrpcIdle /\ ConnIdle /\ UriIdle /\ HttpIdle

NextCheck == WithMaxFrameSize \/ CheckSize \/ Forget

SpecCheck == InitCheck /\ [][NextCheck]_vars

(***************************************************************************)
(*               FramedEncoder::size on messages of any size               *)
(***************************************************************************)
\* inner real sizes (usize): small ones, those around the default limit,
\* 2^31 - 1, 2^31, 2^32 and the sizes that follow 2^32
InnerRealSizes ==
    {Usize(0, r) : r \in 0..(MaxFrame + 1)}
        \cup {Usize(0, DEFAULT_MAX_FRAME_SIZE), Usize(0, DEFAULT_MAX_FRAME_SIZE + 1),
              Usize(0, TwoTo31Minus1), Usize(1, 0), Usize(1, 1)}
        \cup {Usize(2, r) : r \in 0..(MaxFrame + 1)}

\* FramedEncoder::size for a message whose inner real size is any usize
SizeOf ==
    /\ last.op = "none"
    /\ \E real \in InnerRealSizes :
          LET o == SizeOutcomeOf([real |-> real, malloc |-> real])
          IN  /\ inner_size' = o.inner_size
              /\ last' = [NoOp EXCEPT !.op = "size_of", !.real = real,
                                      !.outcome = o.outcome, !.ret = o.ret]
    /\ sized' = None
    /\ UNCHANGED <<max_frame_size, cx_role, has_framed, read_size,
                   read_end_at, request>>
    /\ UNCHANGED <<grpcVars, connVars, uriVars, httpVars>>

\* an encoder of either role, on a context a decoder may have tagged
SizeStart ==
    /\ max_frame_size \in {m \in MaxFrameSizes : m >= 0}
    /\ cx_role \in {"Client", "Server"}
    /\ has_framed \in BOOLEAN
    /\ read_size = None
    /\ read_end_at = FALSE
    /\ inner_size = 0
    /\ last = NoOp
    /\ sized = None
    /\ request = NoRequest

InitSize == SizeStart /\ GrpcIdle /\ ConnIdle /\ UriIdle /\ HttpIdle

NextSize == SizeOf \/ Forget

SpecSize == InitSize /\ [][NextSize]_vars

(***************************************************************************)
(*                HTTP connector: builder and call                         *)
(***************************************************************************)
\* HttpMakeConnection::Plain(PlainMakeConnection::default())
PlainConn == [variant |-> "Plain", tls_connector |-> None]

\* the match of with_tls_connector: Plain is wrapped, Tls is kept as it is
WrapTls(mk, tls_connector) ==
    IF mk.variant = "Plain"
    THEN [variant |-> "Tls", tls_connector |-> Some(tls_connector)]
    ELSE mk

\* with_tls_connector refuses to add TLS
TlsNeverRefused == FALSE

TlsRefused == disable_tls

\* with_tls_connector(tls_connector) on the builder
WithTlsConnectorOutcome(tls_connector) ==
    IF TlsRefused
    THEN [builder |-> "panicked", mk_conn |-> mk_conn]
    ELSE [builder |-> "new", mk_conn |-> WrapTls(mk_conn, tls_connector)]

\* the caller invokes with_tls (the default connector) or
\* with_tls_connector (a connector of its own); both exist only with the
\* feature __tls
WithTls ==
    /\ builder = "new"
    /\ tls_feature
    /\ steps < MaxBuilderSteps
    /\ \E c \in {"default", "custom"} :
          /\ builder' = WithTlsConnectorOutcome(c).builder
          /\ mk_conn' = WithTlsConnectorOutcome(c).mk_conn
    /\ tls_invoked' = TRUE
    /\ steps' = steps + 1
    /\ UNCHANGED <<tls_feature, disable_tls, connector, dials, conn_last>>
    /\ UNCHANGED <<grpcVars, framedVars, uriVars, httpVars>>

\* build() itself adds TLS
BuildAddsTlsNever == FALSE

BuildAddsTls == tls_feature /\ ~disable_tls

\* ConnectorBuilder::build
Build ==
    /\ builder = "new"
    /\ connector' = Some(IF BuildAddsTls THEN WrapTls(mk_conn, "default")
                         ELSE mk_conn)
    /\ builder' = "built"
    /\ UNCHANGED <<tls_feature, disable_tls, mk_conn, tls_invoked, steps,
                   dials, conn_last>>
    /\ UNCHANGED <<grpcVars, framedVars, uriVars, httpVars>>

\* the requests given to call
Schemes == {"http", "https", "http+unix", "ws"}
PeerInfos ==
    {[scheme |-> sc, address |-> a, name |-> "example.com"] :
        sc \in Schemes, a \in {"127.0.0.1:8000", "/tmp/rpc.sock"}}

\* what an underlying dialer can return
DialResults ==
    {[kind |-> "conn", detail |-> ""],
     [kind |-> "error", detail |-> "connect timeout"],
     [kind |-> "error", detail |-> "connection refused"]}

\* Err(bad_scheme(scheme))
BadScheme(scheme) == [kind |-> "bad_scheme", detail |-> scheme]

\* the Plain variant hands the request to its dialer
PlainDialsHttps(peer) == peer.scheme \in {"http", "https"}

PlainDials(peer) == peer.scheme = "http"

\* HttpMakeConnection::call(peer), the dialer answering `dialed`
ConnCallOutcome(conn, peer, dialed) ==
    IF conn.variant = "Plain"
    THEN IF ~PlainDials(peer)
         THEN [dial |-> None, result |-> BadScheme(peer.scheme)]
         ELSE [dial |-> Some([dialer |-> "plain", req |-> peer]), result |-> dialed]
    ELSE [dial |-> Some([dialer |-> "tls", req |-> peer]), result |-> dialed]

ConnCall ==
    /\ IsSome(connector)
    /\ conn_last = None
    /\ Len(dials) < MaxDials
    /\ \E peer \in PeerInfos, dialed \in DialResults :
          LET o == ConnCallOutcome(Unwrap(connector), peer, dialed)
          IN  /\ dials' = IF IsSome(o.dial) THEN Append(dials, Unwrap(o.dial))
                          ELSE dials
              /\ conn_last' = Some([req |-> peer, dialed |-> dialed,
                                    dials_before |-> Len(dials),
                                    result |-> o.result])
    /\ UNCHANGED <<tls_feature, disable_tls, builder, mk_conn, tls_invoked,
                   steps, connector>>
    /\ UNCHANGED <<grpcVars, framedVars, uriVars, httpVars>>

\* history only: the record of the finished call is dropped
ConnForget ==
    /\ conn_last # None
    /\ conn_last' = None
    /\ UNCHANGED <<tls_feature, disable_tls, builder, mk_conn, tls_invoked,
                   steps, connector, dials>>
    /\ UNCHANGED <<grpcVars, framedVars, uriVars, httpVars>>

\* ConnectorBuilder::new(config), for every build and every config
ConnStart ==
    /\ tls_feature \in BOOLEAN
    /\ disable_tls \in BOOLEAN
    /\ builder = "new"
    /\ mk_conn = PlainConn
    /\ tls_invoked = FALSE
    /\ steps = 0
    /\ connector = None
    /\ dials = <<>>
    /\ conn_last = None

\* the codec at rest, for the specification of the connector
FramedRest ==
    /\ max_frame_size = DEFAULT_MAX_FRAME_SIZE
    /\ cx_role = "Client"
    /\ has_framed = FALSE
    /\ read_size = None
    /\ read_end_at = FALSE
    /\ inner_size = 0
    /\ last = NoOp
    /\ sized = None
    /\ request = NoRequest

InitConn == ConnStart /\ GrpcIdle /\ FramedRest /\ UriIdle /\ HttpIdle

NextConn == WithTls \/ Build \/ ConnCall \/ ConnForget

SpecConn == InitConn /\ [][NextConn]_vars

(***************************************************************************)
(*                          build_uri alone                                *)
(***************************************************************************)
\* the characters method paths are made of
PathChars == {"/", "a", "?", "#", " "}
UriPaths == SeqsUpTo(PathChars, MaxPath)

\* the bytes Unix socket paths are made of: `/`, `t`, 0xC3 (the lead byte
\* of a two-byte character), 0xA9 (a continuation byte) and 0xFF (never
\* part of UTF-8)
SockBytes == {47, 116, 195, 169, 255}

\* IP socket addresses, Unix socket addresses bound to a pathname, and the
\* unnamed Unix socket address
UriAddresses ==
    { IpAddress("v4", <<127, 0, 0, 1>>, 8000),
      IpAddress("v4", <<10, 200, 3, 45>>, 80),
      IpAddress("v6", <<":", ":", "1">>, 65535) }
    \cup {UnixAddress(Some(u)) : u \in SeqsUpTo(SockBytes, MaxSock) \ {<<>>}}
    \cup {UnixAddress(None)}

\* build_uri(addr, path)
BuildsUri ==
    /\ uri_out = None
    /\ uri_out' = Some(BuildUri(uri_addr, uri_path))
    /\ UNCHANGED <<uri_addr, uri_path>>
    /\ UNCHANGED <<grpcVars, framedVars, connVars, httpVars>>

UriStart ==
    /\ uri_addr \in UriAddresses
    /\ uri_path \in UriPaths
    /\ uri_out = None

InitUri == UriStart /\ GrpcIdle /\ FramedRest /\ ConnIdle /\ HttpIdle

NextUri == BuildsUri

SpecUri == InitUri /\ [][NextUri]_vars

(***************************************************************************)
(*                 HTTP client: the timeout of a call                      *)
(***************************************************************************)
\* durations, in milliseconds
Durations == {1, 999, 1000, 1999, 5000, 60000}

\* Config::set_timeout
ConfigSetTimeoutKeepingFirst(cfg, timeout) ==
    IF IsSome(cfg.timeout) THEN cfg ELSE [cfg EXCEPT !.timeout = timeout]

ConfigSetTimeout(cfg, timeout) == [cfg EXCEPT !.timeout = timeout]

\* Config::timeout
ConfigTimeout(cfg) == cfg.timeout

\* Reusable::clear of Config
ConfigClear(cfg) == [cfg EXCEPT !.timeout = None]

\* Duration::as_secs: whole seconds
AsSecs(ms) == ms \div 1000

\* GetTimeoutAsSeconds::call: the seconds of the timeout as the body, or
\* status 500 when the context holds no timeout
GetTimeoutAsSeconds(cfg) ==
    IF IsSome(ConfigTimeout(cfg))
    THEN [status |-> 200, body |-> Decimal(AsSecs(Unwrap(ConfigTimeout(cfg))))]
    ELSE [status |-> 500, body |-> <<>>]

\* the Config of the context the client makes for one call: a fresh
\* context gets the client's default timeout, then the CallOpt's timeout
\* if the call supplies one
ConfigForCall(default, opt) ==
    LET base == ConfigSetTimeout(ConfigClear(ConfigNew), Some(default))
    IN  IF IsSome(opt) THEN ConfigSetTimeout(base, opt) ELSE base

\* client.get("/").with_callopt(..).send() on the mock transport
HttpCall ==
    /\ http_calls < MaxCalls
    /\ \E opt \in {None} \cup {Some(t) : t \in Durations} :
          /\ call_opt' = opt
          /\ cx_config' = ConfigForCall(request_timeout, opt)
          /\ http_resp' =
                 Some(GetTimeoutAsSeconds(ConfigForCall(request_timeout, opt)))
    /\ http_calls' = http_calls + 1
    /\ UNCHANGED request_timeout
    /\ UNCHANGED <<grpcVars, framedVars, connVars, uriVars>>

\* builder.set_request_timeout(d), then the client is built
HttpStart ==
    /\ request_timeout \in Durations
    /\ call_opt = None
    /\ cx_config = ConfigNew
    /\ http_resp = None
    /\ http_calls = 0

InitHttp == HttpStart /\ GrpcIdle /\ FramedRest /\ ConnIdle /\ UriIdle

NextHttp == HttpCall

SpecHttp == InitHttp /\ [][NextHttp]_vars

(***************************************************************************)
(*                 Claims about ClientTransport::call                      *)
(***************************************************************************)

\* C1: every request call dispatches has version HTTP/2, method POST,
\* exactly the header te: trailers and exactly the header
\* content-type: application/grpc, whatever the caller's metadata holds
\* under these names.
C1_ForcedHeaders ==
    \A i \in 1..Len(dispatched) :
        /\ dispatched[i].version = "HTTP/2"
        /\ dispatched[i].method = "POST"
        /\ dispatched[i].headers["te"] = <<"trailers">>
        /\ dispatched[i].headers["content-type"] = <<"application/grpc">>

\* a request was dispatched whose metadata held other te and content-type
\* values
C1_Witness ==
    /\ Len(dispatched) = 1
    /\ metadata["te"] = <<"gzip">>
    /\ metadata["content-type"] = <<"text/plain">>

HeaderStatusNotOk(h) == IsSome(h.grpc_status) /\ Unwrap(h.grpc_status) # 0

\* the response names a grpc-encoding that is not in accept_compressions
Unaccepted(h) ==
    /\ IsSome(h.grpc_encoding)
    /\ ~(/\ IsSome(accept_compressions)
         /\ InList(Unwrap(h.grpc_encoding), Unwrap(accept_compressions)))

\* C3 as stated: a non-Ok status in the initial headers is returned as the
\* error and from_body is never invoked; with status Ok or no status the
\* call proceeds to from_body.
C3_Original ==
    (pc = "done" /\ IsSome(resp_headers)) =>
        IF HeaderStatusNotOk(Unwrap(resp_headers))
        THEN /\ from_body = None
             /\ result = StatusFromHeaderMap(Unwrap(resp_headers))
        ELSE IsSome(from_body)

\* C3 as amended: a non-Ok status in the initial headers is returned as the
\* error and from_body is never invoked; with status Ok or no status the
\* call proceeds to the negotiation of the receive compression, and to
\* from_body unless the negotiation (feature "compress") rejects the
\* response's grpc-encoding, whose Status is then returned.
C3_HeaderStatus ==
    (pc = "done" /\ IsSome(resp_headers)) =>
        IF HeaderStatusNotOk(Unwrap(resp_headers))
        THEN /\ from_body = None
             /\ result = Some(Status(CodeOf(Unwrap(Unwrap(resp_headers).grpc_status)),
                                     Unwrap(resp_headers).grpc_message))
        ELSE IF compress /\ Unaccepted(Unwrap(resp_headers))
        THEN from_body = None /\ ~Unwrap(result).ok
        ELSE IsSome(from_body)

\* a trailers-only error was returned
C3_Witness ==
    /\ pc = "done"
    /\ IsSome(resp_headers)
    /\ Unwrap(resp_headers).grpc_status = Some(5)
    /\ result = Some(Status("NotFound", "not found"))

\* C4: the send compression is the first element of send_compressions if
\* the list has an element, and none otherwise (list absent or empty).
C4_FirstWins ==
    (pc # "start" /\ callee_address # None) =>
        body_compression =
            Some(IF IsSome(send_compressions) /\ Len(Unwrap(send_compressions)) > 0
                 THEN Some(Unwrap(send_compressions)[1])
                 ELSE None)

\* C5: a response whose grpc-encoding is not in accept_compressions makes
\* call return a Status error, and its body is never handed to from_body.
C5_UnknownEncodingRejected ==
    (pc = "done" /\ IsSome(resp_headers) /\ Unaccepted(Unwrap(resp_headers))) =>
        /\ from_body = None
        /\ ~Unwrap(result).ok

\* transport_end_at is set only with transport_start_at set and after the
\* dispatch returned a response
EndOnlyAfterDispatch ==
    IsSome(transport_end_at) =>
        /\ IsSome(transport_start_at)
        /\ Len(dispatched) = 1
        /\ IsSome(resp_headers)

\* C6 as stated: transport_end_at is set only if transport_start_at is set
\* and the dispatch has returned successfully, and whenever both are set
\* transport_start_at is strictly earlier than transport_end_at.
C6_Original ==
    /\ EndOnlyAfterDispatch
    /\ (IsSome(transport_start_at) /\ IsSome(transport_end_at)) =>
           Unwrap(transport_start_at) < Unwrap(transport_end_at)

\* C6 as amended: transport_end_at is set only if transport_start_at is set
\* and the dispatch has returned successfully, and whenever both are set
\* transport_start_at is not later than transport_end_at unless the wall
\* clock was set back between the two recordings.
C6_StatsOrder ==
    /\ EndOnlyAfterDispatch
    /\ (IsSome(transport_start_at) /\ IsSome(transport_end_at)
        /\ ~clock_set_back) =>
           Unwrap(transport_start_at) <= Unwrap(transport_end_at)

\* both timestamps are recorded, the clock advanced between the recordings
\* and was never set back
C6_Witness ==
    /\ IsSome(transport_start_at)
    /\ IsSome(transport_end_at)
    /\ ~clock_set_back
    /\ Unwrap(transport_start_at) < Unwrap(transport_end_at)

\* C7: one call dispatches the request at most once; a failure of ready or
\* of the dispatch is returned as a Status error, with no second dispatch.
C7_NoRetry ==
    /\ Len(dispatched) <= 1
    /\ (IsSome(req) /\ resp_headers = None /\ pc \in {"done", "call"}
        /\ IsSome(result)) =>
           /\ pc = "done"
           /\ ~Unwrap(result).ok

\* the dispatch failed and call returned the error
C7_Witness ==
    /\ pc = "done"
    /\ Len(dispatched) = 1
    /\ resp_headers = None
    /\ result = Some(Status("Unknown", "transport error"))

(***************************************************************************)
(*                  Claims about the framed codec                          *)
(***************************************************************************)

\* a decoder has just handed a message to the inner decoder
Decoded == last.op \in {"decode", "decode_async"} /\ last.outcome = "ok"

\* C8 as stated: after each decode of a sequence of decodes on one context,
\* the extensions contain HasFramed if and only if the message just decoded
\* was length-prefixed.
C8_Original == Decoded => (has_framed <=> LooksFramed(last.wire))

\* C8 as amended: after each decode of a sequence of decodes on one context,
\* the extensions contain HasFramed if and only if the message just decoded
\* was length-prefixed or the context already contained HasFramed before
\* the decode: the decoder sets the tag and never removes it.
C8_HasFramedSticky ==
    Decoded => (has_framed <=> (LooksFramed(last.wire) \/ last.had_framed))

\* an unframed message was decoded on a fresh context, by the streaming
\* decoder, from at least HEADER_DETECT_LENGTH bytes
C8_Witness ==
    /\ last.op = "decode_async"
    /\ last.outcome = "ok"
    /\ ~last.had_framed
    /\ Len(last.wire) >= HEADER_DETECT_LENGTH
    /\ ~LooksFramed(last.wire)
    /\ ~has_framed

\* the pair the inner encoder reports for msg, and the pair with the
\* header added
InnerPair(msg) == [real |-> Usize(0, Len(msg)), malloc |-> Usize(0, Len(msg))]
FramedPair(msg) ==
    [real |-> Usize(0, Len(msg) + 4), malloc |-> Usize(0, Len(msg) + 4)]

\* a server answers the one request it decoded on the context
ServerAnswers ==
    cx_role = "Server" /\ request.n = 1 /\ request.ok

\* encode runs for the message size was called with, and size succeeded
EncodedAfterSize ==
    /\ last.op = "encode"
    /\ IsSome(sized)
    /\ Unwrap(sized).msg = last.msg
    /\ Unwrap(sized).outcome = "ok"

\* the response a server emits mirrors the request
MirroredOutput ==
    (ServerAnswers /\ EncodedAfterSize) =>
        last.out = IF request.framed
                   THEN BE32(Len(last.msg)) \o last.msg
                   ELSE last.msg

ClientEcho ==
    last.op = "decode" /\ last.kind = "echo" /\ cx_role = "Client"

\* the decoder undid the framing of the encoder
RoundTrip ==
    /\ last.outcome = "ok"
    /\ last.consumed = 4
    /\ has_framed
    /\ last.inner = "decode"
    /\ last.inner_in = Unwrap(last.echo_of)

\* C10 as stated: for every message and every inner encoding of it (any
\* length from 0 up to max_frame_size, any leading bytes), decoding what a
\* client's FramedEncoder emitted strips exactly the 4-byte prefix, sets
\* HasFramed and gives the inner decoder exactly the inner encoding.
C10_Original == ClientEcho => RoundTrip

\* C10 as amended: for every message whose inner encoding is at most
\* max_frame_size long and begins with 0x80 0x01 or with 0x82 followed by
\* at least one more byte, decoding what a client's FramedEncoder emitted
\* strips exactly the 4-byte prefix, sets HasFramed and gives the inner
\* decoder exactly the inner encoding.
C10_RoundTrip ==
    (ClientEcho /\ Detectable(Unwrap(last.echo_of))) => RoundTrip

\* a binary-protocol message of a client made the round trip
C10_Witness ==
    /\ ClientEcho
    /\ last.echo_of = Some(<<128, 1, 1>>)
    /\ last.inner_in = <<128, 1, 1>>

\* check_framed_size has just been applied
Checked == last.op = "check"

\* C11: for every i32 length L and every max_frame_size,
\* check_framed_size(L, max_frame_size) succeeds if and only if
\* 0 <= L <= max_frame_size.
C11_CheckIff ==
    Checked =>
        (last.outcome = "ok" <=> (0 <= last.size /\ last.size <= max_frame_size))

\* a frame of exactly max_frame_size bytes was accepted
C11_Witness ==
    /\ Checked
    /\ last.size = max_frame_size
    /\ last.size > 0
    /\ last.outcome = "ok"

\* C12: every length L < 0 fails with NegativeSize, whatever
\* max_frame_size is (zero and negative values included); SizeLimit is
\* reported only for L > max_frame_size with L >= 0.
C12_NegativeSizeKind ==
    Checked =>
        /\ last.size < 0 => last.outcome = "NegativeSize"
        /\ last.outcome = "SizeLimit" =>
               (last.size > max_frame_size /\ last.size >= 0)

\* a decoder with the default max_frame_size was given a message it takes
\* for framed, whose length prefix is the four bytes `prefix`
DefaultDecoderGot(prefix) ==
    /\ last.op \in {"decode", "decode_async"}
    /\ max_frame_size = DEFAULT_MAX_FRAME_SIZE
    /\ LooksFramed(last.wire)
    /\ Take(last.wire, 4) = prefix

\* C13 as stated: a FramedDecoder with max_frame_size = 16 MiB that
\* receives a framed message with length prefix 0x01 0x00 0x00 0x00 fails
\* with SizeLimit.
C13_Original ==
    DefaultDecoderGot(<<1, 0, 0, 0>>) => last.outcome = "SizeLimit"

\* C13 as amended: a FramedDecoder with max_frame_size = 16 MiB fails with
\* SizeLimit on the length prefix 0x01 0x00 0x00 0x01 (16 MiB + 1); the
\* prefix 0x01 0x00 0x00 0x00 is exactly 16 MiB, passes the size check and
\* does not fail with SizeLimit.
C13_SizeLimitAboveMax ==
    /\ DefaultDecoderGot(<<1, 0, 0, 1>>) => last.outcome = "SizeLimit"
    /\ DefaultDecoderGot(<<1, 0, 0, 0>>) => last.outcome # "SizeLimit"

\* the buffered decoder refused a frame of 16 MiB + 1 bytes
C13_Witness ==
    /\ DefaultDecoderGot(<<1, 0, 0, 1>>)
    /\ last.op = "decode"
    /\ last.outcome = "SizeLimit"

\* a decoder has just run
RanDecoder == last.op \in {"decode", "decode_async"}

\* the decoder took the framed branch: it consumed the length prefix, or
\* failed on the way to it
TookFramedBranch == ~(last.consumed = 0 /\ last.outcome = "ok")

\* at least 6 bytes, and behind the first four 0x80 0x01 or 0x82
MagicAtOffset4(wire) ==
    /\ Len(wire) >= 6
    /\ ((wire[5] = 128 /\ wire[6] = 1) \/ wire[5] = 130)

\* C14: the decoder classifies an input as framed if and only if at least
\* 6 bytes are available and bytes 4..5 are 0x80 0x01 or byte 4 is 0x82;
\* an input of fewer than 6 bytes is forwarded to the inner decoder (decode
\* for the buffered path, decode_async for the streaming path) with no
\* byte consumed and without the decoder setting HasFramed.
C14_Classification ==
    RanDecoder =>
        /\ TookFramedBranch <=> MagicAtOffset4(last.wire)
        /\ Len(last.wire) < 6 =>
               /\ last.outcome = "ok"
               /\ last.consumed = 0
               /\ last.inner = last.op
               /\ last.inner_in = last.wire
               /\ has_framed = last.had_framed

\* the streaming decoder forwarded an input of 1 to 5 bytes to the inner
\* decoder
C14_Witness ==
    /\ last.op = "decode_async"
    /\ Len(last.wire) \in 1..5
    /\ last.inner = "decode_async"
    /\ last.inner_in = last.wire
    /\ ~has_framed

(***************************************************************************)
(*                  Claims about the HTTP connector                        *)
(***************************************************************************)

\* call has just returned on a connector of the Plain variant
PlainCalled ==
    /\ IsSome(conn_last)
    /\ IsSome(connector)
    /\ Unwrap(connector).variant = "Plain"

\* C15: on the Plain variant, a request whose scheme is not http gets the
\* bad-scheme error and the underlying dialer is not invoked; a request
\* whose scheme is http is passed to the underlying dialer, whose result is
\* returned unchanged.
C15_PlainScheme ==
    PlainCalled =>
        LET c == Unwrap(conn_last)
        IN  IF c.req.scheme # "http"
            THEN /\ c.result = [kind |-> "bad_scheme", detail |-> c.req.scheme]
                 /\ Len(dials) = c.dials_before
            ELSE /\ Len(dials) = c.dials_before + 1
                 /\ dials[Len(dials)] = [dialer |-> "plain", req |-> c.req]
                 /\ c.result = c.dialed

\* an https request was refused by a Plain connector that never dialed
C15_Witness ==
    /\ PlainCalled
    /\ Unwrap(conn_last).req.scheme = "https"
    /\ Unwrap(conn_last).result = [kind |-> "bad_scheme", detail |-> "https"]
    /\ dials = <<>>

\* C16: with config.disable_tls = true, a with_tls / with_tls_connector
\* step aborts the construction (the builder panics and nothing is
\* built), and a build() that completes returns the Plain variant.
C16_DisableTls ==
    disable_tls =>
        /\ tls_invoked => (builder = "panicked" /\ connector = None)
        /\ IsSome(connector) => Unwrap(connector).variant = "Plain"

\* with TLS disabled a with_tls step has aborted the construction
C16_Witness ==
    disable_tls /\ tls_invoked /\ builder = "panicked" /\ steps = 1

\* C17 as stated: build() returns the Tls variant only if with_tls or
\* with_tls_connector was invoked on the builder beforehand; a builder on
\* which neither was invoked builds Plain.
C17_Original ==
    IsSome(connector) =>
        /\ Unwrap(connector).variant = "Tls" => tls_invoked
        /\ ~tls_invoked => Unwrap(connector).variant = "Plain"

\* C17 as amended: a ConnectorBuilder starts with the Plain variant, and
\* build() returns the Tls variant if and only if the crate is built with
\* the feature __tls and config.disable_tls is false, whether or not
\* with_tls or with_tls_connector was invoked: build() itself applies
\* with_tls with the default connector, and an earlier with_tls_connector
\* only decides which connector the Tls variant holds.
C17_TlsByDefault ==
    /\ (builder = "new" /\ ~tls_invoked) => mk_conn.variant = "Plain"
    /\ IsSome(connector) =>
           /\ Unwrap(connector).variant = "Tls" <=> (tls_feature /\ ~disable_tls)
           /\ (tls_feature /\ ~disable_tls) =>
                  Unwrap(connector).tls_connector =
                      IF tls_invoked THEN mk_conn.tls_connector
                      ELSE Some("default")

\* build() returned the Tls variant on a builder nobody added TLS to
C17_Witness ==
    /\ IsSome(connector)
    /\ ~tls_invoked
    /\ Unwrap(connector) = [variant |-> "Tls", tls_connector |-> Some("default")]

(***************************************************************************)
(*                       Claims about build_uri                            *)
(***************************************************************************)

\* build_uri ran on an IP socket address / a Unix socket path
BuiltForIp == IsSome(uri_out) /\ uri_addr.kind = "ip"
BuiltForUnixPath ==
    IsSome(uri_out) /\ uri_addr.kind = "unix" /\ IsSome(uri_addr.pathname)

\* p is not empty and holds neither a `#` nor a character that may not
\* stand in a URI
PlainPath(p) == p # <<>> /\ \A i \in 1..Len(p) : p[i] \notin {"#", " "}

\* p holds a character that may not stand in a URI, and no `#`
BrokenPath(p) ==
    /\ \E i \in 1..Len(p) : p[i] = " "
    /\ \A i \in 1..Len(p) : p[i] # "#"

\* C18 as stated: for every IP socket address a and every method path p,
\* build_uri(a, p) has scheme http, authority ip:port of a and
\* path-and-query exactly p.
C18_Original ==
    BuiltForIp =>
        /\ Unwrap(uri_out).panic = ""
        /\ Unwrap(uri_out).scheme = "http"
        /\ Unwrap(uri_out).authority = SocketAddrText(uri_addr)
        /\ Unwrap(uri_out).path_and_query = uri_path

\* C18 as amended: for every IP socket address a and every method path p
\* that is a non-empty valid path-and-query without fragment, build_uri(a,
\* p) has scheme http, authority ip:port of a and path-and-query exactly
\* p; for a p with a character that may not stand in a URI, build_uri
\* panics ("fail to build ip uri") and returns nothing.
C18_IpUri ==
    BuiltForIp =>
        /\ PlainPath(uri_path) =>
               /\ Unwrap(uri_out).panic = ""
               /\ Unwrap(uri_out).scheme = "http"
               /\ Unwrap(uri_out).authority = SocketAddrText(uri_addr)
               /\ Unwrap(uri_out).path_and_query = uri_path
        /\ BrokenPath(uri_path) => Unwrap(uri_out).panic = "fail to build ip uri"

\* the URI of 127.0.0.1:8000 and a path with a query was built
C18_Witness ==
    /\ BuiltForIp
    /\ uri_path = <<"/", "?", "a">>
    /\ Unwrap(uri_out).scheme = "http"
    /\ Unwrap(uri_out).authority =
           <<"1", "2", "7", ".", "0", ".", "0", ".", "1", ":", "8", "0", "0", "0">>
    /\ Unwrap(uri_out).path_and_query = <<"/", "?", "a">>

\* the value of a hexadecimal digit
HexVal(c) ==
    CASE c = "0" -> 0 [] c = "1" -> 1 [] c = "2" -> 2 [] c = "3" -> 3
      [] c = "4" -> 4 [] c = "5" -> 5 [] c = "6" -> 6 [] c = "7" -> 7
      [] c = "8" -> 8 [] c = "9" -> 9 [] c = "a" -> 10 [] c = "b" -> 11
      [] c = "c" -> 12 [] c = "d" -> 13 [] c = "e" -> 14 [] c = "f" -> 15

\* the bytes a text of hexadecimal digits stands for
RECURSIVE HexDecode(_)
HexDecode(t) ==
    IF Len(t) < 2 THEN <<>>
    ELSE <<HexVal(t[1]) * 16 + HexVal(t[2])>> \o HexDecode(Tail(Tail(t)))

\* C19: for every Unix socket path u and every method path p (here a
\* non-empty valid path-and-query without fragment), build_uri(u, p) has
\* scheme http+unix, path-and-query p, and an authority whose hex decoding
\* is exactly the bytes of u.
C19_UnixUri ==
    (BuiltForUnixPath /\ PlainPath(uri_path)) =>
        /\ Unwrap(uri_out).panic = ""
        /\ Unwrap(uri_out).scheme = "http+unix"
        /\ Unwrap(uri_out).path_and_query = uri_path
        /\ HexDecode(Unwrap(uri_out).authority) = Unwrap(uri_addr.pathname)

\* no URI can be built from the callee address and the method path: the
\* address is an unnamed Unix socket, or the path holds a character that
\* may not stand in a URI
NoUriFor(addr, path) ==
    \/ addr.kind = "unix" /\ addr.pathname = None
    \/ BrokenPath(path)

\* C20: when no valid URI can be built from the callee address and the
\* method path, call returns a Status with code Internal and dispatches
\* nothing.
C20_UriFailureInternal ==
    (/\ pc # "start"
     /\ IsSome(callee_address)
     /\ NoUriFor(Unwrap(callee_address), method)
     /\ ~(IsSome(send_compressions) /\ Unwrap(send_compressions) = <<>>)) =>
        /\ pc = "done"
        /\ IsSome(result)
        /\ Unwrap(result).code = "Internal"
        /\ dispatched = <<>>

(***************************************************************************)
(*                  Claims about the HTTP client                           *)
(***************************************************************************)

\* C21: in every sequence of calls on a client built with the default
\* request timeout d, the timeout the innermost service reads from the
\* context is the CallOpt's timeout when the call supplies one and d when
\* it does not, and the service reports its whole seconds.
C21_CallTimeout ==
    http_calls > 0 =>
        LET expected == IF IsSome(call_opt) THEN Unwrap(call_opt)
                        ELSE request_timeout
        IN  /\ cx_config.timeout = Some(expected)
            /\ http_resp = Some([status |-> 200,
                                 body |-> Decimal(expected \div 1000)])

\* on a client with a default of 1 s, a later call with a CallOpt of 5 s
\* was answered "5"
C21_Witness ==
    /\ request_timeout = 1000
    /\ http_calls = 2
    /\ call_opt = Some(5000)
    /\ http_resp = Some([status |-> 200, body |-> <<"5">>])

(***************************************************************************)
(*            More claims about the framed codec                           *)
(***************************************************************************)

\* the usize u is greater than the non-negative i32 m
UsizeExceeds(u, m) == u.q > 0 \/ u.r > m

\* C22: whenever a frame header will be emitted (role = Client or
\* HasFramed present), size fails with a ProtocolException for every inner
\* real size greater than max_frame_size, sizes of 2^31 and 2^32 and above
\* included, and never succeeds with a cached inner_size different from
\* the true inner real size.
C22_SizeNeverTruncates ==
    (last.op = "size_of" /\ (cx_role = "Client" \/ has_framed)) =>
        /\ UsizeExceeds(last.real, max_frame_size) =>
               last.outcome \in {"SizeLimit", "NegativeSize"}
        /\ last.outcome = "ok" => last.real = Usize(0, inner_size)

\* a step of decode_async
StreamingStep == last.op = "none" /\ last'.op = "decode_async"

\* C23: on the streaming path, for every framed header whose 4-byte length
\* is negative or greater than max_frame_size, decode_async returns the
\* corresponding ProtocolException (NegativeSize or SizeLimit) as an error
\* value, having consumed only the 4 prefix bytes, without stamping
\* read_end_at, without setting HasFramed and without invoking the inner
\* decoder.
C23_StreamingRejects ==
    [][(StreamingStep /\ LooksFramed(last'.wire)
          /\ CheckFramedSize(GetI32(last'.wire), max_frame_size) # "ok") =>
            /\ last'.outcome = CheckFramedSize(GetI32(last'.wire), max_frame_size)
            /\ last'.consumed = 4
            /\ last'.inner = "none"
            /\ read_end_at' = read_end_at
            /\ has_framed' = has_framed]_vars

\* the length field of the bytes the last operation was given
DeclaredLength(w) == GetI32(w)

\* C24: on a successful streaming decode of a framed message with valid
\* length L, exactly L + 4 bytes are consumed, stats.read_size is L + 4,
\* stats.read_end_at is stamped in the decode that read the whole payload
\* and ran the inner decoder, and the inner buffered decoder receives
\* exactly the L payload bytes; if the reader ends before L payload bytes,
\* the decode fails, the inner decoder is not run and neither read_end_at
\* nor HasFramed is set by it.
C24_StreamingSuccess ==
    [][(StreamingStep /\ LooksFramed(last'.wire)
          /\ CheckFramedSize(DeclaredLength(last'.wire), max_frame_size) = "ok") =>
          LET w == last'.wire
              L == DeclaredLength(w)
          IN  IF Len(w) - 4 >= L
              THEN /\ last'.outcome = "ok"
                   /\ last'.consumed = L + 4
                   /\ read_size' = Some(Usize(0, L + 4))
                   /\ read_end_at'
                   /\ has_framed'
                   /\ last'.inner = "decode"
                   /\ last'.inner_in = SubSeq(w, 5, 4 + L)
              ELSE /\ last'.outcome \notin {"ok", "panic"}
                   /\ last'.inner = "none"
                   /\ read_end_at' = read_end_at
                   /\ has_framed' = has_framed]_vars

\* a streaming decode succeeded on a frame of length L > 0 that more bytes
\* followed
C24_Witness ==
    /\ last.op = "decode_async" /\ last.outcome = "ok"
    /\ LooksFramed(last.wire)
    /\ DeclaredLength(last.wire) > 0
    /\ Len(last.wire) - 4 > DeclaredLength(last.wire)
    /\ Len(last.inner_in) = DeclaredLength(last.wire)
    /\ read_end_at

\* a streaming decode met the end of the reader inside the payload
C24_ShortRead ==
    /\ last.op = "decode_async" /\ last.outcome = "UnexpectedEof"
    /\ ~read_end_at /\ ~has_framed

\* the last encode wrote a length prefix before the inner encoder's bytes
WrotePrefix == Len(last.out) = Len(InnerEncode(last.msg)) + FRAMED_HEADER_SIZE

\* the value of the prefix the last encode wrote
PrefixValue == GetI32(last.out)

SentEncoding == dispatched[1].headers["grpc-encoding"]

\* C26 as stated: the dispatched request carries a grpc-encoding header
\* naming algorithm A exactly when the body was produced with send
\* compression A: set to A (over any caller-supplied value) when A is
\* selected, and no grpc-encoding header at all when none is selected.
C26_Original ==
    (Len(dispatched) > 0 /\ IsSome(body_compression)) =>
        SentEncoding = IF IsSome(Unwrap(body_compression))
                       THEN <<Unwrap(Unwrap(body_compression))>>
                       ELSE <<>>

\* C26 as amended: when a compression A is selected the dispatched request
\* carries the single grpc-encoding value A, over any caller-supplied one;
\* when none is selected the call leaves the header alone, so the request
\* carries exactly the grpc-encoding values of the caller's metadata (none
\* if the caller gave none) although the body is not compressed.
C26_EncodingHeader ==
    (Len(dispatched) > 0 /\ IsSome(body_compression)) =>
        SentEncoding = IF IsSome(Unwrap(body_compression))
                       THEN <<Unwrap(Unwrap(body_compression))>>
                       ELSE metadata["grpc-encoding"]

\* a request was dispatched with the selected compression over the
\* caller's own grpc-encoding
C26_Witness ==
    /\ Len(dispatched) > 0
    /\ metadata["grpc-encoding"] = <<"zstd">>
    /\ body_compression = Some(Some("gzip"))
    /\ SentEncoding = <<"gzip">>

(***************************************************************************)
(*            The buffered and the streaming decoder compared              *)
(***************************************************************************)

\* the buffered path on the bytes the last streaming decode was given
Buffered == DecodeOutcome(last.wire)

\* an outcome of the framed branch: the prefix was consumed, or the
\* decoder failed on the way
FramedBranch(consumed, outcome) == ~(consumed = 0 /\ outcome = "ok")

\* C27 as stated: for every input byte sequence the buffered path and the
\* streaming path agree: same classification as framed or not, same error
\* or success, HasFramed left in the same state, and when framed the same
\* payload bytes handed to the inner buffered decoder, also when the
\* declared length differs from the number of bytes after the prefix.
C27_Original ==
    last.op = "decode_async" =>
        /\ FramedBranch(last.consumed, last.outcome)
              <=> FramedBranch(Buffered.consumed, Buffered.outcome)
        /\ last.outcome = Buffered.outcome
        /\ has_framed = (last.had_framed \/ Buffered.framed)
        /\ LooksFramed(last.wire) => last.inner_in = Buffered.inner_in

\* C27 as amended: the two paths classify every input identically; they
\* agree on the result, on HasFramed and on the payload for an unframed
\* input, for a framed input whose length is valid and equal to the
\* number of bytes after the prefix, and for an invalid length except
\* that for lengths -4..-1 the streaming path may panic (overflow checks)
\* where the buffered path returns NegativeSize.  With a valid length L
\* and more than L bytes after the prefix both succeed and set HasFramed,
\* but the streaming path hands the inner decoder the first L bytes and
\* the buffered path all the bytes after the prefix; with fewer than L
\* bytes the streaming path fails (UnexpectedEof) without setting
\* HasFramed while the buffered path succeeds, sets HasFramed and hands
\* over the bytes there are.
C27_PathsAgree ==
    last.op = "decode_async" =>
        LET w == last.wire
            L == DeclaredLength(w)
            following == Len(w) - 4
            same == /\ last.outcome = Buffered.outcome
                    /\ has_framed = (last.had_framed \/ Buffered.framed)
        IN  /\ LooksFramed(w) <=> FramedBranch(Buffered.consumed, Buffered.outcome)
            /\ LooksFramed(w) <=> FramedBranch(last.consumed, last.outcome)
            /\ IF ~LooksFramed(w)
               THEN same /\ last.inner_in = Buffered.inner_in
               ELSE IF last.outcome = "panic"
               THEN /\ L \in (-4)..(-1)
                    /\ Buffered.outcome = "NegativeSize"
                    /\ has_framed = last.had_framed
                    /\ ~Buffered.framed
               ELSE IF CheckFramedSize(L, max_frame_size) # "ok"
               THEN same /\ last.outcome = CheckFramedSize(L, max_frame_size)
                         /\ last.inner = "none" /\ Buffered.inner = "none"
               ELSE IF following = L
               THEN same /\ last.outcome = "ok" /\ has_framed
                         /\ last.inner_in = Buffered.inner_in
               ELSE IF following > L
               THEN /\ same /\ last.outcome = "ok" /\ has_framed
                    /\ last.inner_in = Take(Buffered.inner_in, L)
                    /\ Len(Buffered.inner_in) = following
               ELSE /\ last.outcome = "UnexpectedEof"
                    /\ has_framed = last.had_framed
                    /\ Buffered.outcome = "ok" /\ Buffered.framed
                    /\ Len(Buffered.inner_in) = following

\* a streaming decode of a well-formed frame with a payload, on which the
\* buffered path gives the same payload
C27_Witness ==
    /\ last.op = "decode_async" /\ last.outcome = "ok"
    /\ LooksFramed(last.wire)
    /\ DeclaredLength(last.wire) = Len(last.wire) - 4
    /\ Buffered.outcome = "ok"
    /\ last.inner_in = Buffered.inner_in
    /\ Len(last.inner_in) > 0
====
